---- MODULE Spec2Model ----
(***************************************************************************)
(* A model of sqlite6nf (src/sqlite6nf.py): the normalizer                 *)
(* (Connection.normalize), the triggers it generates, the transaction      *)
(* state of one connection, the regex statement classifier                 *)
(* (Cursor.simulate over _PATTERN_SIMULATE), and normalize called by       *)
(* several connections on one database file.                               *)
(*                                                                         *)
(* A name is a sequence of text segments, so that the reserved prefix      *)
(* "sqlite6nf_" is a segment that lower() and GLOB can act on:             *)
(* <<"Users">>, <<"sqlite6nf_", "table">>, <<"sqlite6nf_", "1", "_", "2">>.*)
(***************************************************************************)
EXTENDS Integers, Sequences, FiniteSets, TLC

VARIABLES
    db,              \* the database as the connection sees it (uncommitted work included)
    committed,       \* the database as of the last commit
    in_transaction,  \* Connection.in_transaction
    now,             \* the clock read by datetime.now() and strftime(..., 'now')
    result,          \* what the last call on the connection did: [op, ok]
    calls,           \* how many calls the connection has served
    sql,             \* the text handed to Cursor.simulate
    pos,             \* where re.finditer resumes in sql (1-based)
    matches,         \* the productions reported so far, in order
    scanning,        \* whether finditer still has matches to yield
    substituting,    \* whether Cursor.substitute has a transaction time and matches left to collect
    sub_pos,         \* where its finditer resumes in sql (1-based)
    tagged,          \* the table references it collected, last found first (reversed(list(matches)))
    conns,           \* connections sharing the database file, each with its place in normalize
    writer           \* the connection that holds the file's write lock, or 0

vars == <<db, committed, in_transaction, now, result, calls, sql, pos, matches, scanning, substituting, sub_pos, tagged,
          conns, writer>>
dbvars == <<db, committed, in_transaction, now, result, calls>>
subvars == <<substituting, sub_pos, tagged>>
scanvars == <<sql, pos, matches, scanning, substituting, sub_pos, tagged>>
convars == <<conns, writer>>

-----------------------------------------------------------------------------
(* Bounds of the model *)

MaxTime == 3
MaxTableId == 2
MaxRowId == 1
MaxValue == 2
MaxSelector == 2
MaxCalls == 4
MaxConnections == 2

Times == 0..MaxTime
RowIds == 1..MaxRowId
MovedRowIds == 1..(MaxRowId + 1)     \* the rowids an UPDATE of the rowid moves a row between
Values == 1..MaxValue

-----------------------------------------------------------------------------
(* The schema the callers work with *)

Users == <<"Users">>
Orders == <<"Orders">>
Log == <<"SQLITE6NF_", "Log">>

\* The user tables that can exist, and the ones that exist from the start.
UserTables == {Users, Orders, Log}
InitialTables == {Users, Log}

\* PRAGMA table_info of each user table: (name, declared type) in ordinal order.
TableInfo(t) ==
    IF t = Users THEN << [name |-> "id", type |-> "INTEGER"], [name |-> "name", type |-> "TEXT"] >>
    ELSE IF t = Orders THEN << [name |-> "a", type |-> ""] >>
    ELSE << [name |-> "msg", type |-> "TEXT"] >>

\* Users.id is INTEGER PRIMARY KEY: an alias of the rowid.
IsRowidAlias(t, c) == t = Users /\ c = "id"

\* The columns of a table that hold a value of their own.
FreeColumns(t) == {TableInfo(t)[i].name : i \in 1..Len(TableInfo(t))} \ {c \in {"id"} : IsRowidAlias(t, c)}

\* The names a caller passes to normalize: live names, a name in another case, a name of no table.
SelectorNames == {Users, <<"users">>, Orders, <<"nope">>}

RECURSIVE SeqsUpTo(_, _)
SeqsUpTo(S, n) ==
    IF n = 0 THEN {<<>>}
    ELSE LET shorter == SeqsUpTo(S, n - 1)
         IN  shorter \cup {Append(s, x) : s \in {q \in shorter : Len(q) = n - 1}, x \in S}

\* normalize(tables): None (every eligible table), or names (one str is a list of one).
ALL == [all |-> TRUE, names |-> <<>>]
Selectors == {ALL} \cup {[all |-> FALSE, names |-> s] : s \in SeqsUpTo(SelectorNames, MaxSelector)}

-----------------------------------------------------------------------------
(* SQLite's text functions on names *)

LowerText(s) ==
    CASE s = "Users" -> "users"
      [] s = "Orders" -> "orders"
      [] s = "SQLITE6NF_" -> "sqlite6nf_"
      [] s = "Log" -> "log"
      [] OTHER -> s

Lower(name) == [i \in 1..Len(name) |-> LowerText(name[i])]

\* lower(name) GLOB 'sqlite6nf_*'
GlobReserved(name) == Len(name) > 0 /\ Lower(name)[1] = "sqlite6nf_"

CatalogNames ==
    { <<"sqlite6nf_", "table">>, <<"sqlite6nf_", "table_exist">>, <<"sqlite6nf_", "table_name">>,
      <<"sqlite6nf_", "column">>, <<"sqlite6nf_", "column_exist">>, <<"sqlite6nf_", "column_name">> }

\* "sqlite6nf_{table_id}", "sqlite6nf_{table_id}_exist", "sqlite6nf_{table_id}_{column_id}"
ShadowName(s) ==
    IF s.kind = "instance" THEN <<"sqlite6nf_", ToString(s.table_id)>>
    ELSE IF s.kind = "exist" THEN <<"sqlite6nf_", ToString(s.table_id), "_exist">>
    ELSE <<"sqlite6nf_", ToString(s.table_id), "_", ToString(s.column_id)>>

\* sqlite_schema: every live table and trigger.
SqliteSchema(d) ==
    {[type |-> "table", name |-> t] : t \in d.tables}
    \cup {[type |-> "table", name |-> n] : n \in {c \in CatalogNames : d.catalog}}
    \cup {[type |-> "table", name |-> ShadowName(s)] : s \in d.shadow}
    \cup {[type |-> "trigger", name |-> <<"sqlite6nf_", "trigger", tr.kind, ToString(tr.table_id), ToString(tr.column_id)>>] :
            tr \in d.triggers}

\* The table a statement's "name" resolves to: SQLite matches table names without regard to case.
Resolve(d, name) == {t \in d.tables : Lower(t) = Lower(name)}

-----------------------------------------------------------------------------
(* The database *)

EmptyDb ==
    [ tables |-> InitialTables,   \* live user tables
      rows |-> {},                \* their rows: [table, rowid, vals]
      catalog |-> FALSE,          \* the six catalog relations exist
      table |-> {},               \* sqlite6nf_table: ids
      table_exist |-> {},         \* [id, transaction, exist]
      table_name |-> {},          \* [id, transaction, name]
      column |-> {},              \* [id, table_id]
      column_exist |-> {},        \* [id, transaction, exist]
      column_name |-> {},         \* [id, transaction, name]
      shadow |-> {},              \* the shadow relations that exist: [kind, table_id, column_id, dtype]
      triggers |-> {},            \* generated triggers: [kind, table_id, column_id, on, column]
      instance |-> <<>>,          \* table_id -> rows of sqlite6nf_{table_id}: ids
      instance_exist |-> <<>>,    \* table_id -> rows of sqlite6nf_{table_id}_exist: [id, transaction, exist]
      instance_value |-> <<>>,    \* <<table_id, column_id>> -> rows of sqlite6nf_{table_id}_{column_id}: [id, transaction, value]
      oplog |-> <<>> ]            \* history: <<table_id, rowid>> -> the statements that tracking saw succeed on the row

Max(S) == IF S = {} THEN 0 ELSE CHOOSE x \in S : \A y \in S : y <= x

\* INTEGER PRIMARY KEY with VALUES (NULL): one more than the largest id in the table.
NextId_Largest(ids) == IF ids = {} THEN 1 ELSE Max(ids)
NextId(ids) == Max(ids) + 1

\* PRIMARY KEY ("id", "transaction") of a history relation.
KeyFree(rel, id, transaction) == ~\E r \in rel : r.id = id /\ r.transaction = transaction

\* CREATE TABLE IF NOT EXISTS: a relation that exists keeps its rows.
CreateIfNotExists(relations, key) == relations @@ (key :> {})

\* One more call on the connection.
Call == calls < MaxCalls /\ calls' = calls + 1

-----------------------------------------------------------------------------
(* Connection.normalize *)

\* _SQL_SELECT_FROM_SQLITE_SCHEMA: live tables without the reserved prefix and
\* without a row of the same name in sqlite6nf_table_name.
Eligible(d) ==
    { s.name : s \in { e \in SqliteSchema(d) :
                         /\ e.type = "table"
                         /\ ~GlobReserved(e.name)
                         /\ ~\E n \in d.table_name : n.name = e.name } }

\* _SQL_SELECT_FROM_PRAGMA_TABLE_INFO: the columns of the live table named exactly :name.
PragmaTableInfo(d, name) ==
    IF \E e \in SqliteSchema(d) : e.type = "table" /\ ~GlobReserved(e.name) /\ e.name = name /\ name \in d.tables
    THEN TableInfo(name)
    ELSE <<>>

\* INSERT OR ROLLBACK INTO a catalog history relation.
CatalogInsert(rel, row) ==
    IF KeyFree(rel, row.id, row.transaction)
    THEN [status |-> "ok", rel |-> rel \cup {row}]
    ELSE [status |-> "rollback", rel |-> rel]

\* The triggers of one column (lines 639-640).
ColumnTriggers_NoUpdate(table_id, column_id, on, column) ==
    {[kind |-> "insert_value", table_id |-> table_id, column_id |-> column_id, on |-> on, column |-> column]}
ColumnTriggers(table_id, column_id, on, column) ==
    {[kind |-> k, table_id |-> table_id, column_id |-> column_id, on |-> on, column |-> column] :
        k \in {"insert_value", "update_value"}}

\* The body of the inner loop (lines 632-640): one column of one table.
ProcessColumn_ClockPerColumn(d, table_id, on, col, transaction) ==
    LET column_id == NextId({c.id : c \in d.column})
        ex == CatalogInsert(d.column_exist, [id |-> column_id, transaction |-> transaction + column_id, exist |-> 1])
        nm == CatalogInsert(d.column_name, [id |-> column_id, transaction |-> transaction + column_id, name |-> col.name])
    IN  IF ex.status = "rollback" \/ nm.status = "rollback"
        THEN [status |-> "rollback", db |-> d]
        ELSE [ status |-> "ok",
               db |-> [d EXCEPT
                    !.column = @ \cup {[id |-> column_id, table_id |-> table_id]},
                    !.column_exist = ex.rel,
                    !.column_name = nm.rel,
                    !.shadow = @ \cup {[kind |-> "value", table_id |-> table_id, column_id |-> column_id, dtype |-> col.type]},
                    !.instance_value = CreateIfNotExists(@, <<table_id, column_id>>),
                    !.triggers = @ \cup ColumnTriggers(table_id, column_id, on, col.name)] ]
ProcessColumn(d, table_id, on, col, transaction) ==
    LET column_id == NextId({c.id : c \in d.column})
        ex == CatalogInsert(d.column_exist, [id |-> column_id, transaction |-> transaction, exist |-> 1])
        nm == CatalogInsert(d.column_name, [id |-> column_id, transaction |-> transaction, name |-> col.name])
    IN  IF ex.status = "rollback" \/ nm.status = "rollback"
        THEN [status |-> "rollback", db |-> d]
        ELSE [ status |-> "ok",
               db |-> [d EXCEPT
                    !.column = @ \cup {[id |-> column_id, table_id |-> table_id]},
                    !.column_exist = ex.rel,
                    !.column_name = nm.rel,
                    !.shadow = @ \cup {[kind |-> "value", table_id |-> table_id, column_id |-> column_id, dtype |-> col.type]},
                    !.instance_value = CreateIfNotExists(@, <<table_id, column_id>>),
                    !.triggers = @ \cup ColumnTriggers(table_id, column_id, on, col.name)] ]

RECURSIVE ProcessColumns(_, _, _, _, _)
ProcessColumns(d, table_id, on, columns, transaction) ==
    IF columns = <<>> THEN [status |-> "ok", db |-> d]
    ELSE LET one == ProcessColumn(d, table_id, on, Head(columns), transaction)
         IN  IF one.status # "ok" THEN one
             ELSE ProcessColumns(one.db, table_id, on, Tail(columns), transaction)

\* The body of the outer loop (lines 620-640): one table name.
\*   "rollback": an INSERT OR ROLLBACK hit its primary key; "error": a statement raised
\*   and left the transaction as it was.
ProcessTable_BackFill(d, table_name, transaction) ==
    LET table_id == NextId(d.table)
        ex == CatalogInsert(d.table_exist, [id |-> table_id, transaction |-> transaction, exist |-> 1])
        nm == CatalogInsert(d.table_name, [id |-> table_id, transaction |-> transaction, name |-> table_name])
        d1 == [d EXCEPT
                 !.table = @ \cup {table_id},
                 !.table_exist = ex.rel,
                 !.table_name = nm.rel,
                 !.shadow = @ \cup {[kind |-> k, table_id |-> table_id, column_id |-> 0, dtype |-> ""] :
                                      k \in {"instance", "exist"}},
                 !.instance = @ @@ (table_id :> {x.rowid : x \in {y \in d.rows : Lower(y.table) = Lower(table_name)}}),
                 !.instance_exist = CreateIfNotExists(@, table_id)]
        target == Resolve(d, table_name)
    IN  IF ex.status = "rollback" \/ nm.status = "rollback"
        THEN [status |-> "rollback", db |-> d]
        ELSE IF target = {}
        THEN [status |-> "error", db |-> d1]
        ELSE LET on == CHOOSE t \in target : TRUE
                 d2 == [d1 EXCEPT !.triggers = @ \cup {[kind |-> k, table_id |-> table_id, column_id |-> 0,
                                                         on |-> on, column |-> ""] : k \in {"insert", "delete"}}]
             IN  ProcessColumns(d2, table_id, on, PragmaTableInfo(d2, table_name), transaction)
ProcessTable(d, table_name, transaction) ==
    LET table_id == NextId(d.table)
        ex == CatalogInsert(d.table_exist, [id |-> table_id, transaction |-> transaction, exist |-> 1])
        nm == CatalogInsert(d.table_name, [id |-> table_id, transaction |-> transaction, name |-> table_name])
        d1 == [d EXCEPT
                 !.table = @ \cup {table_id},
                 !.table_exist = ex.rel,
                 !.table_name = nm.rel,
                 !.shadow = @ \cup {[kind |-> k, table_id |-> table_id, column_id |-> 0, dtype |-> ""] :
                                      k \in {"instance", "exist"}},
                 !.instance = CreateIfNotExists(@, table_id),
                 !.instance_exist = CreateIfNotExists(@, table_id)]
        target == Resolve(d, table_name)
    IN  IF ex.status = "rollback" \/ nm.status = "rollback"
        THEN [status |-> "rollback", db |-> d]
        ELSE IF target = {}
        THEN [status |-> "error", db |-> d1]     \* CREATE TRIGGER ... ON a table that does not exist
        ELSE LET on == CHOOSE t \in target : TRUE
                 d2 == [d1 EXCEPT !.triggers = @ \cup {[kind |-> k, table_id |-> table_id, column_id |-> 0,
                                                         on |-> on, column |-> ""] : k \in {"insert", "delete"}}]
             IN  ProcessColumns(d2, table_id, on, PragmaTableInfo(d2, table_name), transaction)

RECURSIVE ProcessTables(_, _, _)
ProcessTables(d, tables, transaction) ==
    IF tables = <<>> THEN [status |-> "ok", db |-> d]
    ELSE LET one == ProcessTable(d, Head(tables), transaction)
         IN  IF one.status # "ok" THEN one
             ELSE ProcessTables(one.db, Tail(tables), transaction)

\* The orders in which a query without ORDER BY may return a set of names.
Orderings(S) == {q \in SeqsUpTo(S, Cardinality(S)) : Len(q) = Cardinality(S) /\ {q[i] : i \in 1..Len(q)} = S}

\* Lines 606-616: the catalog relations are created, then the selector is resolved.
WithCatalog(d) == [d EXCEPT !.catalog = TRUE]
TableLists(d, selector) ==
    IF selector.all THEN Orderings(Eligible(WithCatalog(d))) ELSE {selector.names}

\* Lines 641-642: COMMIT "if not in_transaction".
CommitsAtEnd_Always(began) == TRUE
CommitsAtEnd(began) == began

\* The whole call: its outcome for one resolved list of tables.
NormalizeRun(d, tables, transaction) == ProcessTables(WithCatalog(d), tables, transaction)

Normalize(selector) ==
    \E tables \in TableLists(db, selector) :
        LET began == ~in_transaction
            run == NormalizeRun(db, tables, now)
        IN  /\ Call
            /\ Max(db.table) + Len(tables) <= MaxTableId
            /\ db' = (IF run.status = "rollback" THEN committed ELSE run.db)
            /\ in_transaction' = (IF run.status = "rollback" THEN FALSE
                                  ELSE IF run.status = "error" THEN TRUE
                                  ELSE IF CommitsAtEnd(began) THEN FALSE ELSE TRUE)
            /\ committed' = (IF run.status = "ok" /\ CommitsAtEnd(began) THEN run.db ELSE committed)
            /\ result' = [op |-> "normalize", ok |-> run.status = "ok"]
            /\ UNCHANGED <<now, scanvars, convars>>

-----------------------------------------------------------------------------
(* Statements on the user tables, and the generated triggers they fire *)

\* The tables the callers insert into, update and delete from.
DmlTables == {Users, Orders}

RowOf(d, t, r) == {x \in d.rows : x.table = t /\ x.rowid = r}

\* NEW."{column_name}" / OLD."{column_name}"
ColumnValue(t, r, vals, c) == IF IsRowidAlias(t, c) THEN r ELSE vals[c]

\* An INSERT of a trigger body into a history relation with PRIMARY KEY ("id", "transaction"):
\* a second row with the key makes the statement fail.
HistoryInsert_OrReplace(rel, row) ==
    [ok |-> TRUE, rel |-> {x \in rel : ~(x.id = row.id /\ x.transaction = row.transaction)} \cup {row}]
HistoryInsert_NoPrimaryKey(rel, row) == [ok |-> TRUE, rel |-> rel \cup {row}]
HistoryInsert(rel, row) ==
    IF KeyFree(rel, row.id, row.transaction)
    THEN [ok |-> TRUE, rel |-> rel \cup {row}]
    ELSE [ok |-> FALSE, rel |-> rel]

\* The row the AFTER DELETE trigger writes: (OLD.rowid, now, 0).
DeletedRow_StillExists(r, T) == [id |-> r, transaction |-> T, exist |-> 1]
DeletedRow_AtEpoch(r, T) == [id |-> r, transaction |-> 0, exist |-> 0]
DeletedRow(r, T) == [id |-> r, transaction |-> T, exist |-> 0]

\* One trigger's body, run for the row (rowid r, values vals) at time T.
FireTrigger(d, tr, r, vals, T) ==
    IF tr.kind = "insert"
    THEN LET ins == HistoryInsert(d.instance_exist[tr.table_id], [id |-> r, transaction |-> T, exist |-> 1])
         IN  IF r \in d.instance[tr.table_id] \/ ~ins.ok     \* "id" INT PRIMARY KEY of sqlite6nf_{table_id}
             THEN [ok |-> FALSE, db |-> d]
             ELSE [ok |-> TRUE,
                   db |-> [d EXCEPT !.instance[tr.table_id] = @ \cup {r},
                                    !.instance_exist[tr.table_id] = ins.rel]]
    ELSE IF tr.kind = "delete"
    THEN LET ins == HistoryInsert(d.instance_exist[tr.table_id], DeletedRow(r, T))
         IN  [ok |-> ins.ok, db |-> [d EXCEPT !.instance_exist[tr.table_id] = ins.rel]]
    ELSE LET key == <<tr.table_id, tr.column_id>>
             ins == HistoryInsert(d.instance_value[key],
                                  [id |-> r, transaction |-> T, value |-> ColumnValue(tr.on, r, vals, tr.column)])
         IN  [ok |-> ins.ok, db |-> [d EXCEPT !.instance_value[key] = ins.rel]]

RECURSIVE FireTriggers(_, _, _, _, _)
FireTriggers(d, trs, r, vals, T) ==
    IF trs = {} THEN [ok |-> TRUE, db |-> d]
    ELSE LET tr == CHOOSE x \in trs : TRUE
             one == FireTrigger(d, tr, r, vals, T)
         IN  IF ~one.ok THEN [ok |-> FALSE, db |-> d]
             ELSE FireTriggers(one.db, trs \ {tr}, r, vals, T)

\* The triggers a statement fires: AFTER INSERT, AFTER UPDATE OF column, AFTER DELETE.
Fired(d, op, t, c) ==
    {tr \in d.triggers :
        /\ tr.on = t
        /\ \/ op = "insert" /\ tr.kind \in {"insert", "insert_value"}
           \/ op = "update" /\ tr.kind = "update_value" /\ tr.column = c
           \/ op = "delete" /\ tr.kind = "delete"}

\* History: what each tracking of the table has seen succeed on the row.
Oplog(d, table_id, r) == IF <<table_id, r>> \in DOMAIN d.oplog THEN d.oplog[<<table_id, r>>] ELSE <<>>
Logged(d, op, t, r, c, vals, T) ==
    LET tids == {tr.table_id : tr \in {x \in d.triggers : x.on = t /\ x.kind = "insert"}}
        entry == [op |-> op, transaction |-> T, column |-> c, vals |-> vals]
    IN  [d EXCEPT !.oplog = [k \in {<<i, r>> : i \in tids} |-> Append(Oplog(d, k[1], r), entry)] @@ @]

\* A statement: the change of the user table, then its triggers; a failing trigger
\* undoes the statement. sqlite3 opens a transaction before a data-changing statement.
Statement(op, t, r, c, vals, rows) ==
    LET d1 == [db EXCEPT !.rows = rows]
        run == FireTriggers(d1, Fired(db, op, t, c), r, vals, now)
    IN  /\ Call
        /\ db' = (IF run.ok THEN Logged(run.db, op, t, r, c, vals, now) ELSE db)
        /\ in_transaction' = TRUE
        /\ result' = [op |-> op, ok |-> run.ok]
        /\ UNCHANGED <<committed, now, scanvars, convars>>

Insert(t, r, vals) ==
    /\ t \in db.tables
    /\ RowOf(db, t, r) = {}
    /\ Statement("insert", t, r, "", vals, db.rows \cup {[table |-> t, rowid |-> r, vals |-> vals]})

Update(t, r, c, v) ==
    /\ t \in db.tables
    /\ \E old \in RowOf(db, t, r) :
          LET vals == [old.vals EXCEPT ![c] = v]
          IN  Statement("update", t, r, c, vals, (db.rows \ {old}) \cup {[old EXCEPT !.vals = vals]})

\* An UPDATE that sets the INTEGER PRIMARY KEY column c, the alias of the rowid:
\* the row moves from rowid r to the free rowid to. AFTER UPDATE OF c fires with
\* NEW.rowid = to; no trigger is defined on the row's Instance or existence.
UpdateRowid(t, r, c, to) ==
    /\ t \in db.tables
    /\ IsRowidAlias(t, c)
    /\ RowOf(db, t, to) = {}
    /\ \E old \in RowOf(db, t, r) :
          Statement("update", t, to, c, old.vals, (db.rows \ {old}) \cup {[old EXCEPT !.rowid = to]})

Delete(t, r) ==
    /\ t \in db.tables
    /\ \E old \in RowOf(db, t, r) :
          Statement("delete", t, r, "", old.vals, db.rows \ {old})

-----------------------------------------------------------------------------
(* The connection's other calls, and the clock *)

CreateTable(t) ==
    /\ t \notin db.tables
    /\ Call
    /\ db' = [db EXCEPT !.tables = @ \cup {t}]
    /\ committed' = (IF in_transaction THEN committed ELSE db')
    /\ result' = [op |-> "create", ok |-> TRUE]
    /\ UNCHANGED <<in_transaction, now, scanvars, convars>>

Begin ==
    /\ ~in_transaction
    /\ Call
    /\ in_transaction' = TRUE
    /\ result' = [op |-> "begin", ok |-> TRUE]
    /\ UNCHANGED <<db, committed, now, scanvars, convars>>

Commit ==
    /\ in_transaction
    /\ Call
    /\ committed' = db
    /\ in_transaction' = FALSE
    /\ result' = [op |-> "commit", ok |-> TRUE]
    /\ UNCHANGED <<db, now, scanvars, convars>>

Rollback ==
    /\ in_transaction
    /\ Call
    /\ db' = committed
    /\ in_transaction' = FALSE
    /\ result' = [op |-> "rollback", ok |-> TRUE]
    /\ UNCHANGED <<committed, now, scanvars, convars>>

Tick ==
    /\ now < MaxTime
    /\ now' = now + 1
    /\ UNCHANGED <<db, committed, in_transaction, result, calls, scanvars, convars>>

-----------------------------------------------------------------------------
(* The connections on one database file *)

Connections == 1..MaxConnections

\* No connection is inside normalize.
\*   pc: 0 outside normalize, else the index of the next step in NormalizeSteps
Idle == [c \in Connections |-> [pc |-> 0, tables |-> <<>>, transaction |-> 0, waited |-> FALSE, returned |-> FALSE]]

-----------------------------------------------------------------------------
(* The specification of the normalizer and its triggers *)

Init ==
    /\ db = EmptyDb
    /\ committed = EmptyDb
    /\ in_transaction = FALSE
    /\ now = 0
    /\ result = [op |-> "connect", ok |-> TRUE]
    /\ calls = 0
    /\ sql = <<>>
    /\ pos = 1
    /\ matches = <<>>
    /\ scanning = FALSE
    /\ substituting = FALSE
    /\ sub_pos = 1
    /\ tagged = <<>>
    /\ conns = Idle
    /\ writer = 0

NormalizeCall == \E selector \in Selectors : Normalize(selector)
InsertCall == \E t \in DmlTables, r \in RowIds : \E vals \in [FreeColumns(t) -> Values] : Insert(t, r, vals)
UpdateCall == \E t \in DmlTables, r \in RowIds : \E c \in FreeColumns(t), v \in Values : Update(t, r, c, v)
UpdateRowidCall == \E t \in DmlTables, r \in MovedRowIds, to \in MovedRowIds : UpdateRowid(t, r, "id", to)
DeleteCall == \E t \in DmlTables, r \in RowIds : Delete(t, r)
CreateTableCall == \E t \in UserTables : CreateTable(t)

Next ==
    \/ NormalizeCall
    \/ InsertCall
    \/ UpdateCall
    \/ UpdateRowidCall
    \/ DeleteCall
    \/ CreateTableCall
    \/ Begin
    \/ Commit
    \/ Rollback
    \/ Tick

Spec == Init /\ [][Next]_vars

-----------------------------------------------------------------------------
(* Connection.normalize() called by several connections, none inside a    *)
(* transaction of its caller, one statement group at a time                *)

\* The order of the call's steps: BEGIN IMMEDIATE (line 605), the catalog and
\* the list of tables (lines 606-616), the loop and COMMIT (lines 619-642).
NormalizeSteps_ResolveFirst == <<"resolve", "begin", "tables">>
NormalizeSteps == <<"begin", "resolve", "tables">>

AtStep(c, step) == conns[c].pc \in DOMAIN NormalizeSteps /\ NormalizeSteps[conns[c].pc] = step

\* What a connection reads: its own uncommitted work if it is the writer, else the file.
View(c) == IF writer = c THEN db ELSE committed

\* Lines 601-604: the call starts; Connection.in_transaction is False.
ConnNormalize(c) ==
    /\ conns[c].pc = 0
    /\ writer # c
    /\ Call
    /\ conns' = [conns EXCEPT ![c] = [@ EXCEPT !.pc = 1, !.tables = <<>>, !.transaction = 0, !.waited = writer # 0]]
    /\ UNCHANGED <<db, committed, in_transaction, now, result, writer, scanvars>>

\* Line 605, BEGIN IMMEDIATE TRANSACTION: takes the write lock when no other
\* connection holds it; until then the connection waits.
ConnBegin(c) ==
    /\ AtStep(c, "begin")
    /\ writer = 0
    /\ writer' = c
    /\ db' = committed
    /\ conns' = [conns EXCEPT ![c].pc = @ + 1]
    /\ UNCHANGED <<committed, in_transaction, now, result, calls, scanvars>>

\* Line 605 when the wait outlasts the connection's timeout: OperationalError.
ConnBusy(c) ==
    /\ AtStep(c, "begin")
    /\ writer \notin {0, c}
    /\ conns' = [conns EXCEPT ![c].pc = 0]
    /\ result' = [op |-> "normalize", ok |-> FALSE]
    /\ UNCHANGED <<db, committed, in_transaction, now, calls, writer, scanvars>>

\* Lines 606-618: the catalog relations, the list of eligible tables, the time.
ConnResolve(c) ==
    /\ AtStep(c, "resolve")
    /\ \E tables \in TableLists(View(c), ALL) :
          conns' = [conns EXCEPT ![c] = [@ EXCEPT !.pc = @ + 1, !.tables = tables, !.transaction = now]]
    /\ db' = (IF writer = c THEN WithCatalog(db) ELSE db)
    /\ UNCHANGED <<committed, in_transaction, now, result, calls, writer, scanvars>>

\* Lines 619-640: one round of the loop over the tables.
ConnTable(c) ==
    /\ AtStep(c, "tables")
    /\ writer = c
    /\ conns[c].tables # <<>>
    /\ NextId(db.table) <= MaxTableId
    /\ \E run \in {ProcessTable(WithCatalog(db), Head(conns[c].tables), conns[c].transaction)} :
          /\ db' = (IF run.status = "rollback" THEN committed ELSE run.db)
          /\ writer' = (IF run.status = "rollback" THEN 0 ELSE c)
          /\ conns' = [conns EXCEPT ![c] = IF run.status = "ok" THEN [@ EXCEPT !.tables = Tail(@)]
                                                                  ELSE [@ EXCEPT !.pc = 0]]
          /\ result' = (IF run.status = "ok" THEN result ELSE [op |-> "normalize", ok |-> FALSE])
    /\ UNCHANGED <<committed, in_transaction, now, calls, scanvars>>

\* Lines 641-644: COMMIT TRANSACTION releases the lock; the call returns.
ConnCommit(c) ==
    /\ AtStep(c, "tables")
    /\ writer = c
    /\ conns[c].tables = <<>>
    /\ committed' = db
    /\ writer' = 0
    /\ conns' = [conns EXCEPT ![c] = [@ EXCEPT !.pc = 0, !.returned = TRUE]]
    /\ result' = [op |-> "normalize", ok |-> TRUE]
    /\ UNCHANGED <<db, in_transaction, now, calls, scanvars>>

\* The databases the connections may find: some of the user tables, nothing tracked.
StartDbs == {[EmptyDb EXCEPT !.tables = T] : T \in (SUBSET UserTables) \ {{}}}

InitConcurrent ==
    /\ committed \in StartDbs
    /\ db = committed
    /\ in_transaction = FALSE
    /\ now = 0
    /\ result = [op |-> "connect", ok |-> TRUE]
    /\ calls = 0
    /\ sql = <<>>
    /\ pos = 1
    /\ matches = <<>>
    /\ scanning = FALSE
    /\ substituting = FALSE
    /\ sub_pos = 1
    /\ tagged = <<>>
    /\ conns = Idle
    /\ writer = 0

NextConcurrent ==
    \/ \E c \in Connections : ConnNormalize(c)
    \/ \E c \in Connections : ConnBegin(c)
    \/ \E c \in Connections : ConnBusy(c)
    \/ \E c \in Connections : ConnResolve(c)
    \/ \E c \in Connections : ConnTable(c)
    \/ \E c \in Connections : ConnCommit(c)
    \/ Tick

SpecConcurrent == InitConcurrent /\ [][NextConcurrent]_vars

-----------------------------------------------------------------------------
(* The statement classifier: _PATTERN_SIMULATE as re matches it *)

(* A text is a sequence of characters; a run of letters that the inputs never   *)
(* split (a keyword, a name) and the two-character comment marks are written as *)
(* one element. A pattern yields the positions where it can end, in the order   *)
(* in which re's backtracking tries them; the first one that lets the rest of   *)
(* the expression match is the one re takes.                                    *)

\* The grave accent, which a TLA+ string cannot hold.
GraveAccent == "grave accent"

Punctuation == {" ", "\n", ";", "'", "\"", GraveAccent, "[", "]", ".", "(", ")", ",", ":", "/*", "*/", "--"}

\* The character at position p; "" outside the text.
Tok(text, p) == IF p >= 1 /\ p <= Len(text) THEN text[p] ELSE ""

\* [0-9A-Z_a-z]
IsWord(c) == c # "" /\ c \notin Punctuation

\* (?i:...)
UpperText(c) ==
    CASE c = "create" -> "CREATE"
      [] c = "table" -> "TABLE"
      [] c = "from" -> "FROM"
      [] OTHER -> c

\* $: the end of the text, or just before a newline that ends it.
AtEnd(text, p) == p = Len(text) + 1 \/ (p = Len(text) /\ text[p] = "\n")

RECURSIVE FlattenSeq(_)
FlattenSeq(ss) == IF ss = <<>> THEN <<>> ELSE Head(ss) \o FlattenSeq(Tail(ss))

\* F of each element, in order; and the results of F, one after the other.
MapSeq(s, F(_)) == [i \in DOMAIN s |-> F(s[i])]
FlatMap(s, F(_)) == FlattenSeq([i \in DOMAIN s |-> F(s[i])])

\* for j = from, from + 1, ..., to: the results F[j], in order.
Upto(from, to) == [i \in 1..(IF to >= from THEN to - from + 1 ELSE 0) |-> from + i - 1]

\* (?s:.*?)(?:close|$) from position q: the shortest body first, and for each body
\* the closing mark before the end of the text.
LazyUntil(text, q, close) ==
    FlatMap(Upto(q, Len(text) + 1), LAMBDA j :
        (IF Tok(text, j) = close THEN <<j + 1>> ELSE <<>>)
        \o (IF AtEnd(text, j) THEN <<j>> ELSE <<>>))

\* _PATTERN_COMMENT_SINGLE_LINE, _PATTERN_COMMENT_MULTI_LINE, _PATTERN_COMMENT
CommentSingleLine(text, p) == IF Tok(text, p) = "--" THEN LazyUntil(text, p + 1, "\n") ELSE <<>>
CommentMultiLine(text, p) == IF Tok(text, p) = "/*" THEN LazyUntil(text, p + 1, "*/") ELSE <<>>
Comment(text, p) == CommentSingleLine(text, p) \o CommentMultiLine(text, p)

\* _PATTERN_SPACE: \s, or a comment.
Space(text, p) == (IF Tok(text, p) \in {" ", "\n"} THEN <<p + 1>> ELSE <<>>) \o Comment(text, p)

\* {_PATTERN_SPACE}*? and {_PATTERN_SPACE}+?
RECURSIVE SpaceLazyStar(_, _)
SpaceLazyStar(text, p) == <<p>> \o FlatMap(Space(text, p), LAMBDA e : SpaceLazyStar(text, e))
SpaceLazyPlus(text, p) == FlatMap(Space(text, p), LAMBDA e : SpaceLazyStar(text, e))

\* How many of the characters from p on are the quote q, up to the end of the run.
RECURSIVE QuoteRun(_, _, _)
QuoteRun(text, p, q) == IF Tok(text, p) = q THEN 1 + QuoteRun(text, p + 1, q) ELSE 0

\* A match of an identifier pattern: where it ends, and its text (the group
\* "identifier", which holds the quotes too).
Span(text, p, end) == [end |-> end, name |-> SubSeq(text, p, end - 1)]

\* The closing of a quoted identifier at e: q(?!q), or $.
QuoteClose(text, p, e, q) ==
    (IF Tok(text, e) = q /\ Tok(text, e + 1) # q THEN <<Span(text, p, e + 1)>> ELSE <<>>)
    \o (IF AtEnd(text, e) THEN <<Span(text, p, e)>> ELSE <<>>)

\* _PATTERN_IDENTIFIER_SINGLE_QUOTE, _DOUBLE_QUOTE, _GRAVE_ACCENT:
\*   q (?s:.*?) [^q] (?:qq)* (?:q(?!q)|$)
\* the shortest body first; after it a character that is not the quote; then as many
\* pairs of quotes as there are, giving them back pair by pair.
QuoteSpan(text, p, q) ==
    IF Tok(text, p) # q THEN <<>>
    ELSE LET Closings(j, pairs) ==
                 FlattenSeq([m \in 1..(pairs + 1) |-> QuoteClose(text, p, j + 1 + 2 * (pairs + 1 - m), q)])
         IN  FlatMap(Upto(p + 1, Len(text)), LAMBDA j :
                IF Tok(text, j) = q THEN <<>> ELSE Closings(j, QuoteRun(text, j + 1, q) \div 2))

\* _PATTERN_IDENTIFIER_SQUARE_BRACKET: \[ (?s:.*?) (?:]|$)
SquareBracket(text, p) ==
    IF Tok(text, p) # "[" THEN <<>>
    ELSE FlatMap(Upto(p + 1, Len(text) + 1), LAMBDA j :
            (IF Tok(text, j) = "]" THEN <<Span(text, p, j + 1)>> ELSE <<>>)
            \o (IF AtEnd(text, j) THEN <<Span(text, p, j)>> ELSE <<>>))

\* The end of the run of word characters that starts at p.
RECURSIVE WordEnd(_, _)
WordEnd(text, p) == IF IsWord(Tok(text, p)) THEN WordEnd(text, p + 1) ELSE p

\* _PATTERN_IDENTIFIER_NO_QUOTE: a whole word, with no word character before or after it.
NoQuote(text, p) ==
    IF IsWord(Tok(text, p)) /\ ~IsWord(Tok(text, p - 1))
    THEN <<Span(text, p, WordEnd(text, p))>>
    ELSE <<>>

\* _PATTERN_IDENTIFIER (and _PATTERN_OBJECT_SCHEMA, _PATTERN_OBJECT_TABLE, which rename its groups)
Identifier(text, p) ==
    QuoteSpan(text, p, "'") \o QuoteSpan(text, p, "\"") \o SquareBracket(text, p)
    \o QuoteSpan(text, p, GraveAccent) \o NoQuote(text, p)

NoName == <<>>

\* _PATTERN_OBJECT: (?:schema SPACE*? \. SPACE*?)? table
Object(text, p) ==
    LET Table(sc, q) ==
            MapSeq(Identifier(text, q), LAMBDA tb : [pos |-> tb.end, schema |-> sc.name, table |-> tb.name])
        AfterDot(sc, b) ==
            IF Tok(text, b) # "." THEN <<>>
            ELSE FlatMap(SpaceLazyStar(text, b + 1), LAMBDA a : Table(sc, a))
        Dotted(sc) == FlatMap(SpaceLazyStar(text, sc.end), LAMBDA b : AfterDot(sc, b))
        Bare(sc) == [pos |-> sc.end, schema |-> NoName, table |-> sc.name]
        Either(schemas) == FlatMap(schemas, Dotted) \o MapSeq(schemas, Bare)
    IN  Either(Identifier(text, p))

\* _PATTERN_QUERY_OPEN: (?<=^)|(?<=;)
QueryOpen(text, p) == p = 1 \/ Tok(text, p - 1) = ";"

\* The elements a query pattern is written with.
OPEN == [t |-> "open"]
SPACES == [t |-> "space*"]
SPACE == [t |-> "space+"]
KEYWORD(words) == [t |-> "keyword", words |-> words]
CHAR(c) == [t |-> "char", c |-> c]
OPTIONAL(body) == [t |-> "optional", body |-> body]
OBJECT == [t |-> "object"]
SCHEMA == [t |-> "schema"]
BOUNDARY == [t |-> "boundary"]
SPACES_OR_BRACKETS == [t |-> "(space|bracket)*"]

IF_NOT_EXISTS == OPTIONAL(<<SPACE, KEYWORD({"IF"}), SPACE, KEYWORD({"NOT"}), SPACE, KEYWORD({"EXISTS"})>>)
IF_EXISTS == OPTIONAL(<<SPACE, KEYWORD({"IF"}), SPACE, KEYWORD({"EXISTS"})>>)
TEMPORARY == OPTIONAL(<<SPACE, KEYWORD({"TEMP", "TEMPORARY"})>>)

PATTERN_QUERY_CREATE_TABLE ==
    <<OPEN, SPACES, KEYWORD({"CREATE"}), TEMPORARY, SPACE, KEYWORD({"TABLE"}), IF_NOT_EXISTS, SPACES, OBJECT>>
PATTERN_QUERY_ALTER_TABLE ==
    <<OPEN, SPACES, KEYWORD({"ALTER"}), SPACE, KEYWORD({"TABLE"}), SPACES, OBJECT>>
PATTERN_QUERY_DROP_TABLE ==
    <<OPEN, SPACES, KEYWORD({"DROP"}), SPACE, KEYWORD({"TABLE"}), IF_EXISTS, SPACES, OBJECT>>
PATTERN_QUERY_CREATE_VIEW ==
    <<OPEN, SPACES, KEYWORD({"CREATE"}), TEMPORARY, SPACE, KEYWORD({"VIEW"}), IF_NOT_EXISTS, SPACES, OBJECT>>
PATTERN_QUERY_DROP_VIEW ==
    <<OPEN, SPACES, KEYWORD({"DROP"}), SPACE, KEYWORD({"VIEW"}), IF_EXISTS, SPACES, OBJECT>>
PATTERN_QUERY_ATTACH_DATABASE ==
    <<OPEN, SPACES, KEYWORD({"ATTACH"}), SPACE, KEYWORD({"DATABASE"}), SPACE>>
\* "(:" in the source: a group that starts with a colon.
PATTERN_QUERY_DETACH_DATABASE ==
    <<OPEN, SPACES, KEYWORD({"DETACH"}), OPTIONAL(<<CHAR(":"), SPACE, KEYWORD({"DATABASE"})>>), SPACES, SCHEMA>>

\* The alternatives of _PATTERN_SIMULATE, in order; "$" comes last.
PATTERN_SIMULATE ==
    << [kind |-> "create_table", pattern |-> PATTERN_QUERY_CREATE_TABLE],
       [kind |-> "alter_table", pattern |-> PATTERN_QUERY_ALTER_TABLE],
       [kind |-> "drop_table", pattern |-> PATTERN_QUERY_DROP_TABLE],
       [kind |-> "create_view", pattern |-> PATTERN_QUERY_CREATE_VIEW],
       [kind |-> "drop_view", pattern |-> PATTERN_QUERY_DROP_VIEW],
       [kind |-> "attach_database", pattern |-> PATTERN_QUERY_ATTACH_DATABASE],
       [kind |-> "detach_database", pattern |-> PATTERN_QUERY_DETACH_DATABASE] >>

\* (?<![0-9A-Z_a-z]) (?i:FROM|JOIN) (?:SPACE|\()*? OBJECT
PATTERN_QUERY_SELECT_FROM == <<BOUNDARY, KEYWORD({"FROM", "JOIN"}), SPACES_OR_BRACKETS, OBJECT>>

\* The alternatives of _PATTERN_SUBSTITUTE; "$" comes last.
PATTERN_SUBSTITUTE == << [kind |-> "select_from", pattern |-> PATTERN_QUERY_SELECT_FROM] >>

\* (?:{_PATTERN_SPACE}|\()*?
RECURSIVE SpaceOrBracketLazyStar(_, _)
SpaceOrBracketLazyStar(text, p) ==
    <<p>> \o FlatMap(Space(text, p) \o (IF Tok(text, p) = "(" THEN <<p + 1>> ELSE <<>>),
                     LAMBDA e : SpaceOrBracketLazyStar(text, e))

\* The ways a pattern matches from m = [pos, schema, table], in backtracking order.
RECURSIVE Match(_, _, _)
RECURSIVE Element(_, _, _)
Element(text, m, e) ==
    LET At(ends) == [i \in DOMAIN ends |-> [m EXCEPT !.pos = ends[i]]]
    IN  CASE e.t = "open" -> IF QueryOpen(text, m.pos) THEN <<m>> ELSE <<>>
          [] e.t = "space*" -> At(SpaceLazyStar(text, m.pos))
          [] e.t = "space+" -> At(SpaceLazyPlus(text, m.pos))
          [] e.t = "keyword" -> IF UpperText(Tok(text, m.pos)) \in e.words THEN At(<<m.pos + 1>>) ELSE <<>>
          [] e.t = "char" -> IF Tok(text, m.pos) = e.c THEN At(<<m.pos + 1>>) ELSE <<>>
          [] e.t = "optional" -> Match(text, m, e.body) \o <<m>>
          [] e.t = "object" -> Object(text, m.pos)
          [] e.t = "boundary" -> IF IsWord(Tok(text, m.pos - 1)) THEN <<>> ELSE <<m>>
          [] e.t = "(space|bracket)*" -> At(SpaceOrBracketLazyStar(text, m.pos))
          [] e.t = "schema" ->
                MapSeq(Identifier(text, m.pos), LAMBDA id : [pos |-> id.end, schema |-> id.name, table |-> NoName])
Match(text, m, pattern) ==
    IF Len(pattern) = 0 THEN <<m>>
    ELSE FlatMap(Element(text, m, Head(pattern)), LAMBDA first : Match(text, first, Tail(pattern)))

\* The query alternatives at position p: what each reports and where it ends.
Queries(text, p) ==
    FlatMap(PATTERN_SIMULATE, LAMBDA query :
        MapSeq(Match(text, [pos |-> p, schema |-> NoName, table |-> NoName], query.pattern), LAMBDA m :
            [kind |-> query.kind, pos |-> m.pos, schema |-> m.schema, table |-> m.table]))

Ends(spans) == [i \in DOMAIN spans |-> spans[i].end]

\* _PATTERN_IGNORE: white space or a comment, a quoted span, or any one character.
\* What follows can always match (every character can be ignored up to "$"), so
\* re never comes back for another way to match it.
Ignore(text, p) ==
    Head(Space(text, p)
         \o Ends(QuoteSpan(text, p, "'")) \o Ends(QuoteSpan(text, p, "\""))
         \o Ends(SquareBracket(text, p)) \o Ends(QuoteSpan(text, p, GraveAccent))
         \o <<p + 1>>)

\* One match of _PATTERN_SIMULATE from position p: {_PATTERN_IGNORE}*? (?:queries|$).
RECURSIVE SimulateMatch(_, _)
SimulateMatch(text, p) ==
    LET First(found) == IF found # <<>> THEN Head(found) ELSE SimulateMatch(text, Ignore(text, p))
    IN  First(Queries(text, p)
              \o (IF AtEnd(text, p) THEN <<[kind |-> "end", pos |-> p, schema |-> NoName, table |-> NoName]>>
                  ELSE <<>>))

\* What a match reports: the group that is set, and its object.
Production(m) == [kind |-> m.kind, schema |-> m.schema, table |-> m.table]

\* Cursor.simulate: one iteration of "for match in matches" whose match is a query.
SimulateNext ==
    /\ scanning
    /\ \E m \in {SimulateMatch(sql, pos)} :
           /\ m.kind # "end"
           /\ matches' = Append(matches, Production(m))
           /\ pos' = m.pos
    /\ UNCHANGED <<sql, scanning, subvars, dbvars, convars>>

\* The match that reaches "$": the matches after it are empty and report nothing.
SimulateStop ==
    /\ scanning
    /\ \E m \in {SimulateMatch(sql, pos)} :
           /\ m.kind = "end"
           /\ pos' = m.pos
    /\ scanning' = FALSE
    /\ UNCHANGED <<sql, matches, subvars, dbvars, convars>>

\* Cursor.simulate(text), start to end: everything it reports.
RECURSIVE SimulateFrom(_, _)
SimulateFrom(text, p) ==
    LET Rest(m) == IF m.kind = "end" THEN <<>> ELSE <<Production(m)>> \o SimulateFrom(text, m.pos)
    IN  Rest(SimulateMatch(text, p))
Simulate(text) == SimulateFrom(text, 1)

\* The select_from alternative at position p: the object it tags and where it ends.
References(text, p) ==
    FlatMap(PATTERN_SUBSTITUTE, LAMBDA query :
        MapSeq(Match(text, [pos |-> p, schema |-> NoName, table |-> NoName], query.pattern), LAMBDA m :
            [kind |-> query.kind, pos |-> m.pos, schema |-> m.schema, table |-> m.table]))

\* One match of _PATTERN_SUBSTITUTE from position p: {_PATTERN_IGNORE}*? (?:select_from|$).
RECURSIVE SubstituteMatch(_, _)
SubstituteMatch(text, p) ==
    LET First(found) == IF found # <<>> THEN Head(found) ELSE SubstituteMatch(text, Ignore(text, p))
    IN  First(References(text, p)
              \o (IF AtEnd(text, p) THEN <<[kind |-> "end", pos |-> p, schema |-> NoName, table |-> NoName]>>
                  ELSE <<>>))

\* Cursor.substitute(text, transaction), start to end: everything it collects.
RECURSIVE SubstituteFrom(_, _)
SubstituteFrom(text, p) ==
    LET Rest(m) == IF m.kind = "end" THEN <<>> ELSE <<Production(m)>> \o SubstituteFrom(text, m.pos)
    IN  Rest(SubstituteMatch(text, p))
Substitute(text) == SubstituteFrom(text, 1)

\* Cursor.execute runs substitute after simulate. list(matches): one more match
\* that is a select_from query; the loop takes the list from its last match back.
SubstituteNext ==
    /\ ~scanning
    /\ substituting
    /\ \E m \in {SubstituteMatch(sql, sub_pos)} :
           /\ m.kind # "end"
           /\ tagged' = <<Production(m)>> \o tagged
           /\ sub_pos' = m.pos
    /\ UNCHANGED <<sql, pos, matches, scanning, substituting, dbvars, convars>>

\* The match that reaches "$".
SubstituteStop ==
    /\ ~scanning
    /\ substituting
    /\ \E m \in {SubstituteMatch(sql, sub_pos)} :
           /\ m.kind = "end"
           /\ sub_pos' = m.pos
    /\ substituting' = FALSE
    /\ UNCHANGED <<sql, pos, matches, scanning, tagged, dbvars, convars>>

-----------------------------------------------------------------------------
(* The texts handed to the classifier *)

MaxPrefix == 2

Heads == {<<"CREATE", "TABLE">>, <<"CREATE", "VIEW">>, <<"DROP", "TABLE">>, <<"create", "table">>}

\* What stands between two keywords: a blank, or a comment that holds a keyword and a name.
Gaps == { <<" ">>, <<"/*", "TABLE", " ", "y", "*/">>, <<"--", "VIEW", " ", "y", "\n">> }

Statements == {<<h[1]>> \o g \o <<h[2], " ", "x">> : h \in Heads, g \in Gaps}

\* One statement, or two with a semicolon between them.
Scripts == Statements \cup {a \o <<";">> \o b : a, b \in Statements}

\* What stands before a statement: quoted spans (an empty one among them) and
\* comments with or without a semicolon inside, a word, a semicolon, a blank.
PrefixPieces ==
    { <<"'", "'">>, <<"'", "a", ";", "'">>, <<"[", ";", "]">>, <<"/*", ";", "*/">>, <<"--", ";", "\n">>,
      <<"a">>, <<";">>, <<" ">>,
      <<"'", "a", "'", "'", ";", "'">>, <<"\"", "\"">> }

Prefixed == {FlattenSeq(ps) \o <<"CREATE", " ", "TABLE", " ", "x">> : ps \in SeqsUpTo(PrefixPieces, MaxPrefix)}

\* DETACH with and without the keyword DATABASE, and a colon where the source has one.
Detaches ==
    {<<"DETACH">> \o g \o <<"DATABASE", " ", "s">> : g \in Gaps}
    \cup {<<"DETACH">> \o g \o <<"s">> : g \in Gaps}
    \cup {<<"DETACH", ":", " ", "DATABASE", " ", "s">>, <<"DETACH", " ", "DATABASE">>}

\* What FROM or JOIN can be followed by: a table, with a schema, in brackets, a
\* table-valued function, a sub-select.
Sources ==
    { <<"t">>, <<"s", ".", "t">>, <<"(", "t", ")">>, <<"f", "(", "b", ")">>, <<"f", " ", "(", "b", ")">>,
      <<"(", "SELECT", " ", "b", " ", "FROM", " ", "u", ")">>,
      <<"(", "WITH", " ", "c", " ", "AS", " ", "(", "SELECT", " ", "b", ")", " ", "SELECT", " ", "b", " ", "FROM", " ", "c", ")">> }

Selects ==
    {<<"SELECT", " ", "a", " ", "FROM">> \o g \o src : g \in Gaps, src \in Sources}
    \cup {<<"SELECT", " ", "a", " ", "FROM", " ", "t", " ", "JOIN", " ">> \o src : src \in Sources}
    \cup { <<"SELECT", " ", "'", "FROM", " ", "x", "'">>, <<"select", " ", "a", " ", "from", " ", "t">>,
           <<"SELECT", " ", "a", " ", "FROM", " ", "t", ";", "SELECT", " ", "b", " ", "FROM", " ", "u">> }

\* A comment or a quoted span that is opened and never closed, after nothing,
\* after a statement, after an empty quoted span and a word, or where a statement
\* expects its object; inside it, text that would be a statement or a table
\* reference outside it.
Openers == {<<"/*">>, <<"--">>, <<"'">>, <<"\"">>, <<"[">>, <<GraveAccent>>}
Befores ==
    { <<>>, <<"CREATE", " ", "TABLE", " ", "y", ";">>, <<"CREATE", " ", "TABLE", " ">>, <<"'", "'", "x">>,
      <<"SELECT", " ", "a", " ", "FROM", " ">>, <<"SELECT", " ", "a", " ", "FROM", " ", "t", " ">> }
Insides ==
    { <<"a", ";", "CREATE", " ", "TABLE", " ", "x">>, <<"a", " ", "JOIN", " ", "u">>,
      <<";", "DROP", " ", "TABLE", " ", "x", "\n">> }
Unterminated == {b \o o \o i : b \in Befores, o \in Openers, i \in Insides}

Inputs == Scripts \cup Prefixed \cup Detaches \cup Selects \cup Unterminated

InitScan ==
    /\ sql \in Inputs
    /\ pos = 1
    /\ matches = <<>>
    /\ scanning = TRUE
    /\ substituting \in BOOLEAN     \* "if transaction:"
    /\ sub_pos = 1
    /\ tagged = <<>>
    /\ db = EmptyDb
    /\ committed = EmptyDb
    /\ in_transaction = FALSE
    /\ now = 0
    /\ result = [op |-> "connect", ok |-> TRUE]
    /\ calls = 0
    /\ conns = Idle
    /\ writer = 0

NextScan ==
    \/ SimulateNext
    \/ SimulateStop
    \/ SubstituteNext
    \/ SubstituteStop

SpecScan == InitScan /\ [][NextScan]_vars

-----------------------------------------------------------------------------
(* Properties of normalize *)

\* normalize(name): one str.
One(name) == [all |-> FALSE, names |-> <<name>>]

\* The name has a row in the Table name history.
Tracked(d, name) == \E n \in d.table_name : n.name = name

ShadowsOfKind(d, kind) == {x \in d.shadow : x.kind = kind}
TriggersOfKind(d, kinds) == {x \in d.triggers : x.kind \in kinds}
Added(before, after) == before \subseteq after
Count(before, after) == Cardinality(after \ before)

\* A call of normalize on the single eligible table T, by name or by ALL, that succeeds.
SingleTableCall(T) ==
    /\ T \in Eligible(WithCatalog(db))
    /\ \/ Normalize(One(T))
       \/ Eligible(WithCatalog(db)) = {T} /\ Normalize(ALL)
    /\ result'.ok

\* C1: one successful normalize call on a single eligible table T with N columns
\* creates exactly 1 Instance relation, 1 Instance-existence relation, N Value
\* relations, 2 table-level and 2N column-level triggers, and inserts exactly one
\* Table existence row, one Table name row, N Column existence rows and N Column
\* name rows; nothing that was there before is lost.
C1_NormalizeCounts ==
    [][\A T \in UserTables : SingleTableCall(T) =>
          LET N == Len(TableInfo(T))
          IN  /\ Added(db.shadow, db'.shadow) /\ Added(db.triggers, db'.triggers)
              /\ Added(db.table_exist, db'.table_exist) /\ Added(db.table_name, db'.table_name)
              /\ Added(db.column_exist, db'.column_exist) /\ Added(db.column_name, db'.column_name)
              /\ Count(ShadowsOfKind(db, "instance"), ShadowsOfKind(db', "instance")) = 1
              /\ Count(ShadowsOfKind(db, "exist"), ShadowsOfKind(db', "exist")) = 1
              /\ Count(ShadowsOfKind(db, "value"), ShadowsOfKind(db', "value")) = N
              /\ Count(DOMAIN db.instance, DOMAIN db'.instance) = 1
              /\ Count(DOMAIN db.instance_exist, DOMAIN db'.instance_exist) = 1
              /\ Count(DOMAIN db.instance_value, DOMAIN db'.instance_value) = N
              /\ Count(TriggersOfKind(db, {"insert", "delete"}), TriggersOfKind(db', {"insert", "delete"})) = 2
              /\ Count(TriggersOfKind(db, {"insert_value", "update_value"}),
                       TriggersOfKind(db', {"insert_value", "update_value"})) = 2 * N
              /\ Count(db.table_exist, db'.table_exist) = 1
              /\ Count(db.table_name, db'.table_name) = 1
              /\ Count(db.column_exist, db'.column_exist) = N
              /\ Count(db.column_name, db'.column_name) = N
      ]_vars

\* The first call on the connection normalized Users (two columns) and nothing else.
C1_Witness ==
    /\ result = [op |-> "normalize", ok |-> TRUE]
    /\ calls = 1
    /\ db.table = {1}
    /\ Tracked(db, Users)
    /\ Cardinality(db.column) = 2
    /\ Cardinality(db.triggers) = 6

\* C2: a normalize call whose selector includes an already-tracked table (ALL, or
\* the table's name) allocates no Table id, adds no catalog row and creates no
\* trigger for that table.
C2_SecondNormalizeIsNoOp ==
    [][\A T \in UserTables :
          (Tracked(db, T) /\ T \in db.tables /\ (Normalize(One(T)) \/ Normalize(ALL))) =>
              /\ {n \in db'.table_name : n.name = T} \subseteq db.table_name
              /\ {tr \in db'.triggers : tr.on = T} \subseteq db.triggers
              /\ Normalize(One(T)) => db'.table \subseteq db.table /\ db'.column \subseteq db.column
      ]_vars

\* C3: a normalize call that opened the transaction itself and fails leaves the
\* connection outside a transaction, with nothing of the call in the database
\* and nothing of it committed.
C3_FailureUnwinds ==
    [][\A selector \in Selectors :
          (~in_transaction /\ Normalize(selector) /\ ~result'.ok) =>
              /\ ~in_transaction'
              /\ db' = committed
              /\ committed' = committed
      ]_vars

\* Every row of every Instance-existence and Value relation is kept as it is.
HistoryKept(before, after) ==
    /\ \A k \in DOMAIN before.instance_exist :
          k \in DOMAIN after.instance_exist /\ before.instance_exist[k] \subseteq after.instance_exist[k]
    /\ \A k \in DOMAIN before.instance_value :
          k \in DOMAIN after.instance_value /\ before.instance_value[k] \subseteq after.instance_value[k]

InsertUpdateDelete(log) ==
    /\ Len(log) = 3
    /\ log[1].op = "insert" /\ log[2].op = "update" /\ log[3].op = "delete"
    /\ log[2].column \in DOMAIN log[2].vals     \* the update set a column's value, not the rowid
    /\ log[1].transaction < log[2].transaction
    /\ log[2].transaction < log[3].transaction

\* The Column ids of the column named c under the tracking table_id.
ColumnIds(d, table_id, c) ==
    {x.id : x \in {y \in d.column : y.table_id = table_id /\ \E n \in d.column_name : n.id = y.id /\ n.name = c}}

\* C5: for a tracking of a table and a column c the tracking has a Column id for,
\* inserting row r with v1 in c at t1, updating c to v2 at t2 > t1 and deleting r
\* at t3 > t2 leaves the Value relation of c with exactly (r, t1, v1) and
\* (r, t2, v2) for r, and the Instance-existence relation with exactly (r, t1, 1)
\* and (r, t3, 0) for r.
C5_EndToEndHistory ==
    \A k \in DOMAIN db.oplog :
        LET table_id == k[1]
            r == k[2]
            log == db.oplog[k]
        IN  InsertUpdateDelete(log) =>
              /\ {x \in db.instance_exist[table_id] : x.id = r}
                   = { [id |-> r, transaction |-> log[1].transaction, exist |-> 1],
                       [id |-> r, transaction |-> log[3].transaction, exist |-> 0] }
              /\ \A column_id \in ColumnIds(db, table_id, log[2].column) :
                    {x \in db.instance_value[<<table_id, column_id>>] : x.id = r}
                      = { [id |-> r, transaction |-> log[1].transaction, value |-> log[1].vals[log[2].column]],
                          [id |-> r, transaction |-> log[2].transaction, value |-> log[2].vals[log[2].column]] }

\* The scenario has happened on a tracked column, with two different values.
C5_Witness ==
    \E k \in DOMAIN db.oplog :
        /\ InsertUpdateDelete(db.oplog[k])
        /\ ColumnIds(db, k[1], db.oplog[k][2].column) # {}
        /\ db.oplog[k][1].vals[db.oplog[k][2].column] # db.oplog[k][2].vals[db.oplog[k][2].column]

\* C6: normalize called inside the caller's transaction leaves the connection
\* inside it and commits nothing; normalize called outside a transaction and
\* succeeding leaves the connection outside a transaction with its work
\* committed; a rollback returns the database to what was last committed, so it
\* removes what a normalize inside the transaction created.
C6_Enlistment ==
    [][/\ \A selector \in Selectors :
            Normalize(selector) =>
                /\ in_transaction => in_transaction' /\ committed' = committed
                /\ (~in_transaction /\ result'.ok) => ~in_transaction' /\ committed' = db'
       /\ Rollback => db' = committed /\ ~in_transaction'
      ]_vars

\* normalize has run inside the caller's transaction: its catalog rows are in the
\* database and not committed.
C6_Witness ==
    /\ result = [op |-> "normalize", ok |-> TRUE]
    /\ in_transaction
    /\ db.table # {}
    /\ committed.table = {}

\* The table has triggers of a tracking on it.
HasTracking(d, t) == \E tr \in d.triggers : tr.on = t

\* C7: normalize with selector ALL processes exactly the live tables whose name
\* does not start, in any case, with sqlite6nf_ and that have no row in the Table
\* name history; it tracks no catalog or shadow table, and it puts no second
\* tracking on a table that an earlier call tracked.
C7_AllSelector ==
    [][(Normalize(ALL) /\ result'.ok) =>
          LET new == {n.name : n \in db'.table_name \ db.table_name}
              live == {e.name : e \in {x \in SqliteSchema(WithCatalog(db)) : x.type = "table"}}
          IN  /\ new = {t \in live : ~GlobReserved(t) /\ ~Tracked(db, t)}
              /\ \A t \in new : t \notin CatalogNames /\ t \notin {ShadowName(x) : x \in db.shadow}
              /\ \A t \in db.tables : HasTracking(db, t) => {tr \in db'.triggers : tr.on = t} = {tr \in db.triggers : tr.on = t}
      ]_vars

\* PRIMARY KEY ("id", "transaction")
UniqueKey(rel) == \A x, y \in rel : (x.id = y.id /\ x.transaction = y.transaction) => x = y

\* The history relation a trigger writes to.
WrittenBy(d, tr) ==
    IF tr.kind \in {"insert", "delete"} THEN d.instance_exist[tr.table_id]
    ELSE d.instance_value[<<tr.table_id, tr.column_id>>]

\* The statement would add a second row for (r, now) to a history relation.
SecondRow(op, t, r, c) == \E tr \in Fired(db, op, t, c) : ~KeyFree(WrittenBy(db, tr), r, now)

-----------------------------------------------------------------------------
(* Properties of the classifier *)

\* The first position from q on that holds the mark; past the end if none does.
RECURSIVE Find(_, _, _)
Find(text, q, mark) == IF q > Len(text) \/ text[q] = mark THEN q ELSE Find(text, q + 1, mark)

\* Where the comment that opens at p ends: after its closing mark, or with the text.
CommentEnd(text, p) ==
    LET j == Find(text, p + 1, IF text[p] = "--" THEN "\n" ELSE "*/")
    IN  IF j > Len(text) THEN Len(text) + 1 ELSE j + 1

\* The text with each comment replaced by one blank (for a text without quotes).
RECURSIVE UncommentedFrom(_, _)
UncommentedFrom(text, p) ==
    IF p > Len(text) THEN <<>>
    ELSE IF text[p] \in {"--", "/*"} THEN <<" ">> \o UncommentedFrom(text, CommentEnd(text, p))
    ELSE <<text[p]>> \o UncommentedFrom(text, p + 1)

HasQuote(text) == \E i \in DOMAIN text : text[i] \in {"'", "\"", "[", GraveAccent}

\* C9: comment opacity. What is inside a comment takes no part in classification:
\* for a text without quoted spans, the classifier reports what it reports for the
\* tokens outside the comments alone (the text with a blank in place of each comment).
C9_CommentOpacity ==
    (~scanning /\ ~HasQuote(sql)) => matches = Simulate(UncommentedFrom(sql, 1))

\* Where the quoted span whose body starts at j ends, as SQL reads it: at the next
\* quote that is not doubled, or with the text. An empty span ends at once.
RECURSIVE QuotedEnd(_, _, _)
QuotedEnd(text, j, q) ==
    IF j > Len(text) THEN Len(text) + 1
    ELSE IF text[j] # q THEN QuotedEnd(text, j + 1, q)
    ELSE IF Tok(text, j + 1) = q THEN QuotedEnd(text, j + 2, q)
    ELSE j + 1

\* Where the comment, quoted span or single character at p ends.
SpanEnd(text, p) ==
    CASE text[p] \in {"--", "/*"} -> CommentEnd(text, p)
      [] text[p] \in {"'", "\"", GraveAccent} -> QuotedEnd(text, p + 1, text[p])
      [] text[p] = "[" -> (IF Find(text, p + 1, "]") > Len(text) THEN Len(text) + 1 ELSE Find(text, p + 1, "]") + 1)
      [] OTHER -> p + 1

\* The statements of a text: what lies between the semicolons that are outside
\* every comment and quoted span.
RECURSIVE TopLevelStatements(_, _, _)
TopLevelStatements(text, start, p) ==
    IF p > Len(text) THEN <<SubSeq(text, start, Len(text))>>
    ELSE IF text[p] = ";" THEN <<SubSeq(text, start, p - 1)>> \o TopLevelStatements(text, p + 1, p + 1)
    ELSE TopLevelStatements(text, start, SpanEnd(text, p))

\* The structural statement that a statement's text begins with, if it begins with one.
StructuralStatement(statement) ==
    LET First(found) == IF found = <<>> THEN <<>> ELSE <<Production(Head(found))>>
    IN  First(Queries(statement, 1))

\* C10: statement isolation. The classifier reports exactly the structural
\* statements that begin at the start of the text or directly after a semicolon
\* outside every quoted span and comment, in order.
C10_StatementIsolation ==
    ~scanning =>
        matches = FlatMap(TopLevelStatements(sql, 1, 1), StructuralStatement)

\* Where the quote that closes the span whose body starts at j stands, as SQL reads
\* it: the first quote from j on that is not doubled; 0 if there is none.
RECURSIVE ClosingQuote(_, _, _)
ClosingQuote(text, j, q) ==
    IF j > Len(text) THEN 0
    ELSE IF text[j] # q THEN ClosingQuote(text, j + 1, q)
    ELSE IF Tok(text, j + 1) = q THEN ClosingQuote(text, j + 2, q)
    ELSE j

\* The first "]" from j on; 0 if there is none.
ClosingBracket(text, j) == IF Find(text, j, "]") > Len(text) THEN 0 ELSE Find(text, j, "]")

\* The positions at which the scan of the text from p on ignores something.
RECURSIVE IgnoredAt(_, _)
IgnoredAt(text, p) ==
    LET Onward(m) ==
            IF m.kind = "end" THEN {}
            ELSE IgnoredAt(text, m.pos)
        Here(found) ==
            IF found # <<>> THEN Onward(Head(found))
            ELSE IF AtEnd(text, p) THEN {}
            ELSE {p} \cup IgnoredAt(text, Ignore(text, p))
    IN  Here(Queries(text, p))

\* C11: a quoted span ('...', "...", grave accents) that the scan opens at a
\* delimiter and that SQL closes, closes right after the first later delimiter
\* that is not doubled, whatever it holds (nothing, too); a bracket span closes
\* right after the first "]".
C11_QuoteClosing ==
    ~scanning =>
        \A p \in IgnoredAt(sql, 1) :
            /\ (sql[p] \in {"'", "\"", GraveAccent} /\ ClosingQuote(sql, p + 1, sql[p]) # 0)
                  => Ignore(sql, p) = ClosingQuote(sql, p + 1, sql[p]) + 1
            /\ (sql[p] = "[" /\ ClosingBracket(sql, p + 1) # 0)
                  => Ignore(sql, p) = ClosingBracket(sql, p + 1) + 1

\* The words of a text: what is left when comments and blanks are taken out.
Words(text) == SelectSeq(UncommentedFrom(text, 1), LAMBDA c : c \notin {" ", "\n"})

\* DETACH [DATABASE] schema: the schema a detach statement names.
DetachedSchema(words) ==
    IF Len(words) >= 3 /\ UpperText(words[2]) = "DATABASE" THEN <<words[3]>> ELSE <<words[2]>>

\* C12: a statement DETACH [DATABASE] s is classified as a detach whose schema
\* is the identifier after the optional keyword: s, with the keyword and without.
C12_DetachSchema ==
    (~scanning /\ Len(Words(sql)) \in {2, 3} /\ Head(Words(sql)) = "DETACH" /\ Words(sql)[2] # ":")
        => matches = <<[kind |-> "detach_database", schema |-> DetachedSchema(Words(sql)), table |-> NoName]>>

\* The first position from j on that does not hold an opening bracket.
RECURSIVE SkipBrackets(_, _)
SkipBrackets(words, j) == IF Tok(words, j) = "(" THEN SkipBrackets(words, j + 1) ELSE j

\* What the keyword at position i of the words refers to: a table, with or
\* without a schema; nothing if a sub-select starts there, or if the reference
\* is followed by an opening bracket (a table-valued function).
Reference(words, i) ==
    LET At(j) ==
            IF ~IsWord(Tok(words, j)) \/ UpperText(words[j]) \in {"SELECT", "WITH"} THEN <<>>
            ELSE IF Tok(words, j + 1) = "." /\ IsWord(Tok(words, j + 2))
            THEN (IF Tok(words, j + 3) = "(" THEN <<>>
                  ELSE <<[kind |-> "select_from", schema |-> <<words[j]>>, table |-> <<words[j + 2]>>]>>)
            ELSE (IF Tok(words, j + 1) = "(" THEN <<>>
                  ELSE <<[kind |-> "select_from", schema |-> NoName, table |-> <<words[j]>>]>>)
    IN  IF UpperText(words[i]) \in {"FROM", "JOIN"} THEN At(SkipBrackets(words, i + 1)) ELSE <<>>

\* The table references of a text, in the order of the text.
TableReferences(words) == FlattenSeq([i \in DOMAIN words |-> Reference(words, i)])

Reverse(seq) == [i \in DOMAIN seq |-> seq[Len(seq) + 1 - i]]

\* C13: in a text without quoted spans, substitute tags exactly the objects that
\* follow a FROM or JOIN keyword outside comments (after optional white space,
\* comments and opening brackets), and tags nothing where the reference is
\* followed by an opening bracket or where WITH or SELECT follows the keyword.
C13_TableReferences ==
    (~scanning /\ ~substituting /\ sub_pos > 1 /\ ~HasQuote(sql))
        => Reverse(tagged) = TableReferences(Words(sql))

-----------------------------------------------------------------------------
(* Properties of the catalog and of the history relations *)

\* Each id of the catalog stands for one thing: a Table id has one name, a Column
\* id has one table and one name.
OneBearer(d) ==
    /\ \A x, y \in d.table_name : x.id = y.id => x.name = y.name
    /\ \A x, y \in d.column : x.id = y.id => x.table_id = y.table_id
    /\ \A x, y \in d.column_name : x.id = y.id => x.name = y.name

\* The catalog rows of before are rows of after.
CatalogKept(before, after) ==
    /\ before.table \subseteq after.table
    /\ before.table_exist \subseteq after.table_exist
    /\ before.table_name \subseteq after.table_name
    /\ before.column \subseteq after.column
    /\ before.column_exist \subseteq after.column_exist
    /\ before.column_name \subseteq after.column_name

\* The ids of the rows that are in after and not in before.
NewIds(before, after) == {x.id : x \in after \ before}

\* C14: identity permanence. Whatever the calls (normalize that succeeds or
\* fails, rollbacks by the caller), a committed Table or Column id stands for one
\* table or column and keeps its committed rows, and the ids a normalize call
\* allocates differ from every id of a committed catalog row.
C14_IdentityPermanence ==
    /\ [](OneBearer(committed) /\ OneBearer(db))
    /\ [][/\ CatalogKept(committed, committed')
           /\ \A selector \in Selectors :
                 Normalize(selector) =>
                    /\ NewIds(db.table_name, db'.table_name) \cap committed.table = {}
                    /\ NewIds(db.column_name, db'.column_name) \cap {c.id : c \in committed.column} = {}
         ]_vars

\* Two Table ids are committed, allocated by two calls at different times.
C14_Witness ==
    /\ result = [op |-> "normalize", ok |-> TRUE]
    /\ \E x, y \in committed.table_name : x.id # y.id /\ x.transaction # y.transaction

\* The existence rows of the catalog.
ExistenceRows(d) == d.table_exist \cup d.column_exist

\* The transaction times of the existence rows and name rows that are in after
\* and not in before.
NewTimes(before, after) ==
    {x.transaction : x \in ExistenceRows(after) \ ExistenceRows(before)}
    \cup {x.transaction : x \in after.table_name \ before.table_name}
    \cup {x.transaction : x \in after.column_name \ before.column_name}

\* C15: the Table and Column existence rows and name rows that one normalize call
\* inserts all carry one transaction time, however many tables and columns the
\* call processes, and each of the existence rows has exist = 1.
C15_OneTransactionTime ==
    [][\A selector \in Selectors :
          Normalize(selector) =>
              /\ Cardinality(NewTimes(db, db')) <= 1
              /\ \A x \in ExistenceRows(db') \ ExistenceRows(db) : x.exist = 1
      ]_vars

\* One call has just processed two tables with three columns between them.
C15_Witness ==
    /\ result = [op |-> "normalize", ok |-> TRUE]
    /\ Cardinality(db.table_exist) = 2
    /\ Cardinality(db.column_exist) = 3
    /\ calls = 2

\* The rows that a step adds to a history relation are not older than the rows
\* the relation holds for the same id.
InOrder(before, after) ==
    \A x \in after \ before : \A y \in before : y.id = x.id => y.transaction <= x.transaction

\* The same for a family of relations; a relation that is new has no rows before.
AllInOrder(before, after) ==
    \A k \in DOMAIN after : k \in DOMAIN before => InOrder(before[k], after[k])

\* C16: in every history relation the transaction times of the rows of one id
\* are non-decreasing in the order in which the rows are appended, whatever the
\* normalize calls, inserts, updates and deletes.
C16_TimeOrder ==
    [][/\ InOrder(db.table_exist, db'.table_exist) /\ InOrder(db.table_name, db'.table_name)
       /\ InOrder(db.column_exist, db'.column_exist) /\ InOrder(db.column_name, db'.column_name)
       /\ AllInOrder(db.instance_exist, db'.instance_exist)
       /\ AllInOrder(db.instance_value, db'.instance_value)
      ]_vars

\* A row was inserted, updated later and deleted later still: its Value history
\* and its existence history each hold two rows of different times.
C16_Witness ==
    /\ result = [op |-> "delete", ok |-> TRUE]
    /\ \E k \in DOMAIN db.instance_value :
          \E x, y \in db.instance_value[k] : x.id = y.id /\ x.transaction < y.transaction
    /\ \E k \in DOMAIN db.instance_exist :
          \E x, y \in db.instance_exist[k] : x.id = y.id /\ x.transaction < y.transaction /\ y.exist = 0

\* Where the span that is still open at the end of the text was opened, as SQL
\* reads the text from p on; 0 if every span is closed.
RECURSIVE OpenSpan(_, _)
OpenSpan(text, p) ==
    LET Closed(at) == IF at = 0 THEN p ELSE OpenSpan(text, at + 1)
    IN  IF p > Len(text) THEN 0
        ELSE IF text[p] = "/*" THEN Closed(IF Find(text, p + 1, "*/") > Len(text) THEN 0 ELSE Find(text, p + 1, "*/"))
        ELSE IF text[p] = "--" THEN Closed(IF Find(text, p + 1, "\n") > Len(text) THEN 0 ELSE Find(text, p + 1, "\n"))
        ELSE IF text[p] \in {"'", "\"", GraveAccent} THEN Closed(ClosingQuote(text, p + 1, text[p]))
        ELSE IF text[p] = "[" THEN Closed(ClosingBracket(text, p + 1))
        ELSE OpenSpan(text, p + 1)

\* The text with one word in place of what the open span holds.
Emptied(text) == SubSeq(text, 1, OpenSpan(text, 1)) \o <<"z">>

\* A name that is a quoted span counts as its opening delimiter, whatever it holds.
Delimiter(name) ==
    IF name # <<>> /\ name[1] \in {"'", "\"", GraveAccent, "["} THEN <<name[1]>> ELSE name
Delimiters(productions) ==
    [i \in DOMAIN productions |->
        [productions[i] EXCEPT !.schema = Delimiter(@), !.table = Delimiter(@)]]

\* C17: a comment or a quoted span that is never closed does not make the scan
\* fail: every match is found and moves on through the text, the scan ends, and
\* what is inside the open span is reported neither as a statement nor as a
\* table reference (the reports are those of the text with the span emptied).
C17_UnterminatedSpan ==
    OpenSpan(sql, 1) # 0 =>
        /\ scanning => SimulateMatch(sql, pos).pos \in pos..(Len(sql) + 1)
        /\ (~scanning /\ substituting) => SubstituteMatch(sql, sub_pos).pos \in sub_pos..(Len(sql) + 1)
        /\ ~scanning => Delimiters(matches) = Delimiters(Simulate(Emptied(sql)))
        /\ (~scanning /\ ~substituting /\ sub_pos > 1) =>
              Delimiters(Reverse(tagged)) = Delimiters(Substitute(Emptied(sql)))

-----------------------------------------------------------------------------
(* Properties of the triggers: what one statement on a tracked table appends *)

\* The rows that are in a family of relations after and were not before, each with
\* the key of its relation. (A statement on a user table creates no relation.)
Appended(before, after) == UNION {{<<k, x>> : x \in after[k] \ before[k]} : k \in DOMAIN after}

\* No row of a family of relations is lost.
NoneLost(before, after) == \A k \in DOMAIN before : before[k] \subseteq after[k]

\* The Table ids under which the table is tracked.
Trackings(d, t) == {tr.table_id : tr \in {x \in d.triggers : x.on = t /\ x.kind = "insert"}}

\* The name of the column that a Value relation of the table holds the values of.
ColumnOf(d, k) == (CHOOSE tr \in d.triggers : tr.kind = "insert_value" /\ tr.table_id = k[1] /\ tr.column_id = k[2]).column

\* The catalog relations, the shadow relations that exist and the triggers are the same.
CatalogSame(before, after) ==
    /\ before.catalog = after.catalog
    /\ before.table = after.table
    /\ before.table_exist = after.table_exist /\ before.table_name = after.table_name
    /\ before.column = after.column
    /\ before.column_exist = after.column_exist /\ before.column_name = after.column_name
    /\ before.shadow = after.shadow /\ before.triggers = after.triggers

\* C18: an insert of one row into a tracked table appends exactly one Instance
\* row (the rowid), exactly one existence row (rowid, now, 1) and exactly one
\* Value row (rowid, now, new value) in each Value relation of the table, and
\* changes no shadow relation of another table and no catalog relation.
C18_InsertAppends ==
    [][\A t \in DmlTables, r \in RowIds :
          (HasTracking(db, t) /\ (\E vals \in [FreeColumns(t) -> Values] : Insert(t, r, vals)) /\ result'.ok) =>
              /\ Cardinality(Appended(db.instance, db'.instance)) = 1
              /\ \A a \in Appended(db.instance, db'.instance) : a[1] \in Trackings(db, t) /\ a[2] = r
              /\ Cardinality(Appended(db.instance_exist, db'.instance_exist)) = 1
              /\ \A a \in Appended(db.instance_exist, db'.instance_exist) :
                    a[1] \in Trackings(db, t) /\ a[2] = [id |-> r, transaction |-> now, exist |-> 1]
              /\ \A k \in DOMAIN db'.instance_value :
                    IF k[1] \in Trackings(db, t)
                    THEN \E new \in RowOf(db', t, r) :
                            db'.instance_value[k] \ db.instance_value[k]
                              = {[id |-> r, transaction |-> now, value |-> ColumnValue(t, r, new.vals, ColumnOf(db, k))]}
                    ELSE db'.instance_value[k] = db.instance_value[k]
              /\ NoneLost(db.instance, db'.instance) /\ NoneLost(db.instance_exist, db'.instance_exist)
              /\ NoneLost(db.instance_value, db'.instance_value)
              /\ CatalogSame(db, db')
      ]_vars

\* The column has a Value relation under a tracking of the table.
TrackedColumn(d, t, c) ==
    \E k \in DOMAIN d.instance_value : k[1] \in Trackings(d, t) /\ ColumnOf(d, k) = c

\* C19: an update that sets only tracked column c of one row of a tracked table appends
\* exactly one row, (rowid, now, new value), to the Value relation of c, and
\* leaves the Value relations of the other columns, the Instance relation and
\* the Instance-existence relation as they are.
C19_UpdateAppends ==
    [][\A t \in DmlTables, r \in RowIds : \A c \in FreeColumns(t) :
          (HasTracking(db, t) /\ TrackedColumn(db, t, c) /\ (\E v \in Values : Update(t, r, c, v)) /\ result'.ok) =>
              /\ Cardinality(Appended(db.instance_value, db'.instance_value)) = 1
              /\ \A a \in Appended(db.instance_value, db'.instance_value) :
                    /\ a[1][1] \in Trackings(db, t) /\ ColumnOf(db, a[1]) = c
                    /\ \E new \in RowOf(db', t, r) : a[2] = [id |-> r, transaction |-> now, value |-> new.vals[c]]
              /\ NoneLost(db.instance_value, db'.instance_value)
              /\ db'.instance = db.instance
              /\ db'.instance_exist = db.instance_exist
      ]_vars

\* C20: a delete of one row of a tracked table appends exactly one existence
\* row, (rowid, now, 0), and nothing else: the Instance row and the Value rows
\* of the row stay, and no Value relation gets a row.
C20_DeleteAppends ==
    [][\A t \in DmlTables, r \in RowIds :
          (HasTracking(db, t) /\ Delete(t, r) /\ result'.ok) =>
              /\ Cardinality(Appended(db.instance_exist, db'.instance_exist)) = 1
              /\ \A a \in Appended(db.instance_exist, db'.instance_exist) :
                    a[1] \in Trackings(db, t) /\ a[2] = [id |-> r, transaction |-> now, exist |-> 0]
              /\ NoneLost(db.instance_exist, db'.instance_exist)
              /\ db'.instance = db.instance
              /\ db'.instance_value = db.instance_value
      ]_vars

-----------------------------------------------------------------------------
(* Properties of the history of rows that normalize found in the table *)

\* The rows of a family of shadow relations after a call were all there before
\* it; a relation the call created is empty.
NoRowInserted(before, after) ==
    \A k \in DOMAIN after : after[k] \subseteq (IF k \in DOMAIN before THEN before[k] ELSE {})

\* Every existence row and every Value row was written for a statement that a
\* tracking of the table saw: an insert or a delete, an insert or an update.
FromStatements(d) ==
    /\ \A table_id \in DOMAIN d.instance_exist : \A x \in d.instance_exist[table_id] :
          \E i \in DOMAIN Oplog(d, table_id, x.id) :
             LET e == Oplog(d, table_id, x.id)[i]
             IN  e.transaction = x.transaction /\ e.op = (IF x.exist = 1 THEN "insert" ELSE "delete")
    /\ \A k \in DOMAIN d.instance_value : \A x \in d.instance_value[k] :
          \E i \in DOMAIN Oplog(d, k[1], x.id) :
             LET e == Oplog(d, k[1], x.id)[i]
             IN  e.transaction = x.transaction /\ e.op \in {"insert", "update"}
    /\ \A table_id \in DOMAIN d.instance : \A r \in d.instance[table_id] :
          \E i \in DOMAIN Oplog(d, table_id, r) : Oplog(d, table_id, r)[i].op = "insert"

\* C21: no back-fill. A call of normalize inserts no Instance, existence or Value
\* row: the relations it creates are empty when it returns, also for a table that
\* holds rows, and the relations that were there get no row. Every history row
\* there is was written for an insert, update or delete that a tracking saw.
C21_NoBackFill ==
    [][ /\ \A selector \in Selectors :
             Normalize(selector) =>
                 /\ NoRowInserted(db.instance, db'.instance)
                 /\ NoRowInserted(db.instance_exist, db'.instance_exist)
                 /\ NoRowInserted(db.instance_value, db'.instance_value)
        /\ FromStatements(db')
      ]_vars

\* normalize has just returned for a table that holds a row: the table has its
\* triggers, and its Instance, existence and Value relations are empty.
C21_Witness ==
    /\ result = [op |-> "normalize", ok |-> TRUE]
    /\ \E t \in DmlTables, r \in RowIds :
          /\ RowOf(db, t, r) # {}
          /\ \E table_id \in Trackings(db, t) :
                /\ db.instance[table_id] = {}
                /\ db.instance_exist[table_id] = {}
                /\ \E k \in DOMAIN db.instance_value : k[1] = table_id
                /\ \A k \in DOMAIN db.instance_value : k[1] = table_id => db.instance_value[k] = {}

-----------------------------------------------------------------------------
(* Properties of normalize called by several connections *)

\* The Table ids recorded for the name.
TableIds(d, t) == {n.id : n \in {x \in d.table_name : x.name = t}}

\* The live tables that normalize() is to track.
Trackable(d) == {t \in d.tables : ~GlobReserved(t)}

\* C22: connections that call normalize() on one database, none inside a
\* transaction of its caller, never track a table twice: in every state of every
\* interleaving a table has at most one Table id and one set of triggers, in
\* the file and in the writer's uncommitted work, and once a call has returned
\* every live table has exactly one Table id in the file.
C22_ConcurrentNormalize ==
    /\ \A t \in UserTables :
          /\ Cardinality(TableIds(committed, t)) <= 1 /\ Cardinality(Trackings(committed, t)) <= 1
          /\ Cardinality(TableIds(db, t)) <= 1 /\ Cardinality(Trackings(db, t)) <= 1
    /\ (\E c \in Connections : conns[c].returned) =>
          \A t \in Trackable(committed) : Cardinality(TableIds(committed, t)) = 1

\* A connection called normalize() while another was writing; the other has
\* committed its tracking, and this one, now the writer, has resolved its list
\* and found nothing left to track.
C22_Witness ==
    \E c \in Connections, other \in Connections :
        /\ c # other
        /\ conns[c].waited /\ ~conns[c].returned
        /\ writer = c /\ AtStep(c, "tables") /\ conns[c].tables = <<>>
        /\ db.table = committed.table
        /\ conns[other].returned
        /\ \E t \in Trackable(committed) : Cardinality(TableIds(committed, t)) = 1

-----------------------------------------------------------------------------
(* Properties of the existence history *)

\* The existence rows of row identity r with the greatest transaction time.
LatestExistence(rel, r) ==
    {x \in rel : x.id = r /\ \A y \in rel : y.id = r => y.transaction <= x.transaction}

\* For each tracking of each table and each row identity the tracking saw
\* inserted (it has an Instance row): the row is in the table if and only if
\* its latest existence row says it exists.
ExistenceConsistent(d) ==
    \A t \in DmlTables : \A table_id \in Trackings(d, t) : \A r \in d.instance[table_id] :
        (RowOf(d, t, r) # {}) <=> (\E x \in LatestExistence(d.instance_exist[table_id], r) : x.exist = 1)

\* C23: existence consistency. In every state, a row identity that a tracking
\* of the table saw inserted is present in the table if and only if the
\* existence row with the greatest transaction time for it has exist = 1.
C23_ExistenceConsistency == ExistenceConsistent(db) /\ ExistenceConsistent(committed)

\* C24: referential integrity of history. In every state every row of every
\* Instance-existence relation and of every Value relation has an id that is in
\* the Instance relation of its tracking, also for rows that were in the table
\* before normalize and are updated or deleted afterwards.
C24_ReferentialIntegrity ==
    /\ \A table_id \in DOMAIN db.instance_exist :
          \A x \in db.instance_exist[table_id] : x.id \in db.instance[table_id]
    /\ \A k \in DOMAIN db.instance_value :
          \A x \in db.instance_value[k] : x.id \in db.instance[k[1]]

-----------------------------------------------------------------------------
(* Properties of statements on a tracked table *)

\* C25: tracking is transparent to the base table. Every insert, update or
\* delete that the table accepts is accepted when the table is tracked, and an
\* accepted insert of row r appends the existence row (r, now, 1) under every
\* tracking of the table, also when r is the identity of a row deleted before:
\* no generated trigger makes a statement on the base table fail.
C25_TrackingTransparent ==
    [][ /\ (InsertCall \/ UpdateCall \/ UpdateRowidCall \/ DeleteCall) => result'.ok
        /\ \A t \in DmlTables, r \in RowIds :
              (\E vals \in [FreeColumns(t) -> Values] : Insert(t, r, vals)) =>
                  \A table_id \in Trackings(db, t) :
                      [id |-> r, transaction |-> now, exist |-> 1] \in db'.instance_exist[table_id]
      ]_vars

====
